---- MODULE Spec2Model ----
(***************************************************************************)
(* Model of src/main.py (StocksSafetyScore): the metric functions over a   *)
(* price series and generate_risk_assessment, which combines eight of them *)
(* into a score clamped to [1,100].                                        *)
(*                                                                         *)
(* Numbers.  Every quantity of the program is an IEEE-754 binary float     *)
(* (numpy float64).  The model keeps the IEEE structure - finite values    *)
(* sign * m * 2^e with a normalised mantissa, +Inf, -Inf and NaN, round to *)
(* nearest even after every operation, division by zero giving Inf or NaN  *)
(* instead of raising - with the mantissa narrowed from 53 bits to         *)
(* MantissaBits.  Zero is unsigned.  Sums run left to right; x ** 252 is  *)
(* computed by repeated squaring; np.polyfit's slope is the closed-form    *)
(* least-squares slope.                                                    *)
(*                                                                         *)
(* Data source.  yf.download is the only input of the program.  Each       *)
(* download of the ticker returns the series the data source holds at that *)
(* moment (feed); the data source may restate it between two downloads.    *)
(* A download of a market index returns one of a few series.               *)
(***************************************************************************)
EXTENDS Integers, Sequences, FiniteSets

\* width of the mantissa of the model's floats (float64 has 53)
MantissaBits == 12

----------------------------------------------------------------------------
(* Floating point values and arithmetic                                    *)

Zero == [k |-> "num", s |-> 0, m |-> 0, e |-> 0]
NaN == [k |-> "nan", s |-> 0, m |-> 0, e |-> 0]
Inf(sign) == [k |-> "inf", s |-> sign, m |-> 0, e |-> 0]

IsNaN(a) == a.k = "nan"
IsInf(a) == a.k = "inf"
IsFinite(a) == a.k = "num"

RECURSIVE BitLen(_)
BitLen(n) == IF n = 0 THEN 0 ELSE 1 + BitLen(n \div 2)

\* a normalised mantissa and exponent as a float64 would hold them:
\* overflow past 2^1024 gives an infinity, underflow below 2^-1022 gives 0
Pack(sign, mant, ex) ==
    IF ex + MantissaBits > 1024 THEN Inf(sign)
    ELSE IF ex + MantissaBits < -1021 THEN Zero
    ELSE [k |-> "num", s |-> sign, m |-> mant, e |-> ex]

\* sign * M * 2^E rounded to nearest, ties to even
Round(sign, M, E) ==
    IF M = 0 THEN Zero
    ELSE LET sh == BitLen(M) - MantissaBits
         IN IF sh <= 0 THEN Pack(sign, M * 2^(-sh), E + sh)
            ELSE LET q == M \div 2^sh
                     r == M % 2^sh
                     half == 2^(sh - 1)
                     q2 == IF r > half \/ (r = half /\ q % 2 = 1) THEN q + 1 ELSE q
                 IN IF q2 = 2^MantissaBits
                    THEN Pack(sign, 2^(MantissaBits - 1), E + sh + 1)
                    ELSE Pack(sign, q2, E + sh)

FromInt(n) == IF n < 0 THEN Round(1, -n, 0) ELSE Round(0, n, 0)

FNeg(a) == IF a.k = "nan" \/ (a.k = "num" /\ a.m = 0) THEN a ELSE [a EXCEPT !.s = 1 - a.s]
FAbs(a) == [a EXCEPT !.s = 0]

Sgn(a) == IF a.s = 1 THEN -1 ELSE 1

FAdd(a, b) ==
    IF a.k = "nan" \/ b.k = "nan" THEN NaN
    ELSE IF a.k = "inf" /\ b.k = "inf" THEN (IF a.s = b.s THEN a ELSE NaN)
    ELSE IF a.k = "inf" THEN a
    ELSE IF b.k = "inf" THEN b
    ELSE IF a.m = 0 THEN b
    ELSE IF b.m = 0 THEN a
    ELSE LET hi == IF a.e >= b.e THEN a ELSE b
             lo == IF a.e >= b.e THEN b ELSE a
             d == hi.e - lo.e
         IN IF d > MantissaBits + 2 THEN hi
            ELSE LET v == Sgn(hi) * hi.m * 2^d + Sgn(lo) * lo.m
                 IN IF v < 0 THEN Round(1, -v, lo.e) ELSE Round(0, v, lo.e)

FSub(a, b) == FAdd(a, FNeg(b))

Xor(s, t) == IF s = t THEN 0 ELSE 1

FMul(a, b) ==
    IF a.k = "nan" \/ b.k = "nan" THEN NaN
    ELSE IF a.k = "inf" \/ b.k = "inf"
         THEN (IF (a.k = "num" /\ a.m = 0) \/ (b.k = "num" /\ b.m = 0)
               THEN NaN ELSE Inf(Xor(a.s, b.s)))
    ELSE Round(Xor(a.s, b.s), a.m * b.m, a.e + b.e)

\* numpy float64 division: x/0 is +-Inf, 0/0 is NaN, nothing is raised
FDiv(a, b) ==
    IF a.k = "nan" \/ b.k = "nan" THEN NaN
    ELSE IF a.k = "inf" THEN (IF b.k = "inf" THEN NaN ELSE Inf(Xor(a.s, b.s)))
    ELSE IF b.k = "inf" THEN Zero
    ELSE IF b.m = 0 THEN (IF a.m = 0 THEN NaN ELSE Inf(a.s))
    ELSE IF a.m = 0 THEN Zero
    ELSE LET N == a.m * 2^(MantissaBits + 2)
             Q == N \div b.m
             sticky == IF N % b.m = 0 THEN 0 ELSE 1
         IN Round(Xor(a.s, b.s), 2 * Q + sticky, a.e - b.e - MantissaBits - 3)

RECURSIVE ISqrtFrom(_, _, _)
ISqrtFrom(X, bit, acc) ==
    IF bit = 0 THEN acc
    ELSE LET c == acc + bit
         IN ISqrtFrom(X, bit \div 2, IF c <= X \div c THEN c ELSE acc)

ISqrt(X) == ISqrtFrom(X, 32768, 0)

FSqrt(a) ==
    IF a.k = "nan" THEN NaN
    ELSE IF a.k = "inf" THEN (IF a.s = 0 THEN a ELSE NaN)
    ELSE IF a.m = 0 THEN Zero
    ELSE IF a.s = 1 THEN NaN
    ELSE LET odd == a.e % 2 = 1
             m2 == IF odd THEN 2 * a.m ELSE a.m
             e2 == IF odd THEN a.e - 1 ELSE a.e
             t == (MantissaBits + 2) \div 2
             X == m2 * 2^(2 * t)
             r == ISqrt(X)
             sticky == IF r * r = X THEN 0 ELSE 1
         IN Round(0, 2 * r + sticky, (e2 \div 2) - t - 1)

\* ordering comparisons: every comparison with NaN is false
Key(a) == IF a.k = "inf" THEN <<Sgn(a) * 2, 0, 0>>
          ELSE IF a.m = 0 THEN <<0, 0, 0>>
          ELSE <<Sgn(a), Sgn(a) * a.e, Sgn(a) * a.m>>

KeyLt(x, y) == \/ x[1] < y[1]
               \/ x[1] = y[1] /\ x[2] < y[2]
               \/ x[1] = y[1] /\ x[2] = y[2] /\ x[3] < y[3]

FLt(a, b) == a.k # "nan" /\ b.k # "nan" /\ KeyLt(Key(a), Key(b))
FGt(a, b) == FLt(b, a)
FGe(a, b) == a.k # "nan" /\ b.k # "nan" /\ ~KeyLt(Key(a), Key(b))
FLe(a, b) == FGe(b, a)

One == FromInt(1)
Hundred == FromInt(100)

\* the float a decimal literal n/d denotes (0.35 is Dec(35, 100))
Dec(n, d) == FDiv(FromInt(n), FromInt(d))

\* x ** n for a positive integer n
RECURSIVE FPow(_, _)
FPow(x, n) ==
    IF n = 1 THEN x
    ELSE LET h == FPow(x, n \div 2)
         IN IF n % 2 = 0 THEN FMul(h, h) ELSE FMul(FMul(h, h), x)

\* floor of a finite float >= 0, as an integer
FloorNat(a) ==
    IF a.m = 0 THEN 0
    ELSE IF a.e >= 0 THEN a.m * 2^(a.e)
    ELSE IF -a.e > 30 THEN 0
    ELSE a.m \div 2^(-a.e)

----------------------------------------------------------------------------
(* Series helpers (pandas / numpy reductions)                              *)

ToFloats(prices) == [i \in 1..Len(prices) |-> FromInt(prices[i])]

NotNaN(v) == v.k # "nan"

\* Series.dropna()
DropNa(s) == SelectSeq(s, NotNaN)

\* Series.pct_change(): data / data.shift(1) - 1, the first entry is NaN
PctChange(p) ==
    [i \in 1..Len(p) |-> IF i = 1 THEN NaN ELSE FSub(FDiv(p[i], p[i - 1]), One)]

RECURSIVE SeqSum(_)
SeqSum(s) == IF Len(s) = 0 THEN Zero
             ELSE FAdd(SeqSum(SubSeq(s, 1, Len(s) - 1)), s[Len(s)])

\* Series.mean(), skipping NaN; NaN for an empty sample
Mean(s) ==
    LET v == DropNa(s)
    IN IF Len(v) = 0 THEN NaN ELSE FDiv(SeqSum(v), FromInt(Len(v)))

\* pandas nanvar: sum((avg - x)^2) / (count - ddof), NaN when count <= ddof
Var(s, ddof) ==
    LET v == DropNa(s)
        n == Len(v)
        avg == FDiv(SeqSum(v), FromInt(n))
        sqr == [i \in 1..n |-> FMul(FSub(avg, v[i]), FSub(avg, v[i]))]
    IN IF n <= ddof THEN NaN ELSE FDiv(SeqSum(sqr), FromInt(n - ddof))

\* Series.std(ddof)
Std(s, ddof) == FSqrt(Var(s, ddof))

\* np.cov(x, y)[0, 1] for two arrays of one length: the deviations from
\* the means, their dot product, times 1 / (N - 1)
Cov(xs, ys) ==
    LET n == Len(xs)
        ax == FDiv(SeqSum(xs), FromInt(n))
        ay == FDiv(SeqSum(ys), FromInt(n))
        prod == [i \in 1..n |-> FMul(FSub(xs[i], ax), FSub(ys[i], ay))]
        fact == IF n - 1 > 0 THEN n - 1 ELSE 0
    IN FMul(SeqSum(prod), FDiv(One, FromInt(fact)))

\* Series.cumprod(): NaN entries stay NaN and are skipped by the product
RECURSIVE CumProd(_)
CumProd(s) ==
    IF Len(s) = 0 THEN <<>>
    ELSE LET n == Len(s)
             before == CumProd(SubSeq(s, 1, n - 1))
             seen == DropNa(before)
         IN Append(before,
                   IF IsNaN(s[n]) THEN NaN
                   ELSE IF Len(seen) = 0 THEN s[n]
                   ELSE FMul(seen[Len(seen)], s[n]))

\* mutant of ExpandingMax: each entry is taken as its own peak
CurrentAsPeak(s) == s

\* Series.expanding(min_periods=1).max(): the largest non-NaN entry so far
RECURSIVE ExpandingMax(_)
ExpandingMax(s) ==
    IF Len(s) = 0 THEN <<>>
    ELSE LET n == Len(s)
             before == ExpandingMax(SubSeq(s, 1, n - 1))
             prev == IF n = 1 THEN NaN ELSE before[n - 1]
         IN Append(before,
                   IF IsNaN(s[n]) THEN prev
                   ELSE IF IsNaN(prev) \/ FGt(s[n], prev) THEN s[n]
                   ELSE prev)

\* Series.min(), skipping NaN; NaN when nothing is left
RECURSIVE MinOf(_)
MinOf(v) == IF Len(v) = 1 THEN v[1]
            ELSE LET rest == MinOf(SubSeq(v, 1, Len(v) - 1))
                 IN IF FLt(v[Len(v)], rest) THEN v[Len(v)] ELSE rest

\* mutant of SeriesMin: the largest entry instead of the smallest
RECURSIVE MaxOf(_)
MaxOf(v) == IF Len(v) = 1 THEN v[1]
            ELSE LET rest == MaxOf(SubSeq(v, 1, Len(v) - 1))
                 IN IF FGt(v[Len(v)], rest) THEN v[Len(v)] ELSE rest

SeriesMax(s) == IF Len(DropNa(s)) = 0 THEN NaN ELSE MaxOf(DropNa(s))

SeriesMin(s) == IF Len(DropNa(s)) = 0 THEN NaN ELSE MinOf(DropNa(s))

\* np.sort
RECURSIVE Sorted(_)
Sorted(v) ==
    IF Len(v) <= 1 THEN v
    ELSE LET rest == Sorted(SubSeq(v, 1, Len(v) - 1))
             last == v[Len(v)]
             below == SelectSeq(rest, LAMBDA y : FLe(y, last))
             above == SelectSeq(rest, LAMBDA y : FGt(y, last))
         IN below \o <<last>> \o above

\* np.percentile(a, q), linear interpolation between the two nearest ranks
Percentile(a, q) ==
    LET srt == Sorted(a)
        n == Len(srt)
        quantile == FDiv(q, Hundred)
        virtual == FMul(FromInt(n - 1), quantile)
        lo == FloorNat(virtual)
        t == FSub(virtual, FromInt(lo))
        lower == srt[lo + 1]
        upper == IF lo + 2 <= n THEN srt[lo + 2] ELSE srt[n]
        diff == FSub(upper, lower)
    IN IF FGe(t, Dec(5, 10))
       THEN FSub(upper, FMul(diff, FSub(One, t)))
       ELSE FAdd(lower, FMul(diff, t))

\* np.polyfit(range(n), y, 1)[0]: the slope of the least-squares line
PolyfitSlope(ys) ==
    LET n == Len(ys)
        xs == [i \in 1..n |-> FromInt(i - 1)]
        ax == FDiv(SeqSum(xs), FromInt(n))
        ay == FDiv(SeqSum(ys), FromInt(n))
        sxy == SeqSum([i \in 1..n |-> FMul(FSub(xs[i], ax), FSub(ys[i], ay))])
        sxx == SeqSum([i \in 1..n |-> FMul(FSub(xs[i], ax), FSub(xs[i], ax))])
    IN FDiv(sxy, sxx)

----------------------------------------------------------------------------
(* The metric functions.  Each takes the data its yf.download calls        *)
(* returned, as a sequence of adjusted close prices.                       *)

risk_free_rate == Dec(2, 100)

calculate_volatility(stock_data) ==
    FMul(Std(PctChange(ToFloats(stock_data)), 1), FSqrt(FromInt(252)))

ExcessReturns(data, rf) ==
    LET r == DropNa(PctChange(ToFloats(data)))
    IN [i \in 1..Len(r) |-> FSub(r[i], rf)]

\* <<alpha, beta>>
calculate_alpha_and_beta(stock_data, market_data, rf) ==
    LET excess_returns == ExcessReturns(stock_data, rf)
        excess_market_returns == ExcessReturns(market_data, rf)
        beta == FDiv(Cov(excess_returns, excess_market_returns),
                     Var(excess_market_returns, 0))
        alpha == FSub(Mean(excess_returns), FMul(beta, Mean(excess_market_returns)))
    IN <<alpha, beta>>

calculate_sharpe_ratio(stock_data, rf) ==
    LET excess_returns == ExcessReturns(stock_data, rf)
    IN FDiv(Mean(excess_returns), Std(excess_returns, 1))

CumulativeReturns(stock_data) ==
    LET pct == PctChange(ToFloats(stock_data))
    IN CumProd([i \in 1..Len(pct) |-> FAdd(One, pct[i])])

Drawdown(cumulative_returns, peak) ==
    [i \in 1..Len(peak) |-> FSub(FDiv(cumulative_returns[i], peak[i]), One)]

calculate_max_drawdown(stock_data) ==
    LET cumulative_returns == CumulativeReturns(stock_data)
        peak == ExpandingMax(cumulative_returns)
    IN SeriesMin(Drawdown(cumulative_returns, peak))

\* the part of calculate_treynor_ratio before the call of calculate_alpha_and_beta
TreynorExcessMean(stock_data, rf) == Mean(ExcessReturns(stock_data, rf))

calculate_var(stock_returns, alpha) == Percentile(stock_returns, FMul(alpha, Hundred))

\* the part of calculate_calmar_ratio before the call of calculate_max_drawdown
AnnualizedReturn(stock_data) ==
    FSub(FPow(FAdd(One, Mean(DropNa(PctChange(ToFloats(stock_data))))), 252), One)

CalmarRatio(annualized_return, max_drawdown) == FDiv(annualized_return, FAbs(max_drawdown))

calculate_downside_deviation(stock_returns, threshold) ==
    Std(SelectSeq(stock_returns, LAMBDA r : FLt(r, threshold)), 0)

calculate_trend(stock_returns) == FMul(PolyfitSlope(stock_returns), FromInt(10^6))

Returns(stock_data) == DropNa(PctChange(ToFloats(stock_data)))

----------------------------------------------------------------------------
(* generate_risk_assessment: the weighting and the clamp                   *)

\* mutant of weights: the weights of volatility and trend are exchanged
SkewedWeights ==
    [volatility |-> <<15, 100>>, sharpe_ratio |-> <<1, 10>>,
     max_drawdown |-> <<1, 10>>, treynor_ratio |-> <<1, 10>>,
     calmar_ratio |-> <<1, 10>>, var |-> <<5, 100>>,
     downside_deviation |-> <<5, 100>>, trend |-> <<35, 100>>]

\* the weights table of lines 88-97, each weight as the decimal literal
\* written there: <<35, 100>> is 0.35
weights ==
    [volatility |-> <<35, 100>>, sharpe_ratio |-> <<1, 10>>,
     max_drawdown |-> <<1, 10>>, treynor_ratio |-> <<1, 10>>,
     calmar_ratio |-> <<1, 10>>, var |-> <<5, 100>>,
     downside_deviation |-> <<5, 100>>, trend |-> <<15, 100>>]

\* weights[name] as the float the literal denotes
Weight(name) == Dec(weights[name][1], weights[name][2])

\* np.mean of the list of Treynor ratios
NpMean(xs) == FDiv(SeqSum(xs), FromInt(Len(xs)))

\* the weighted sum of lines 98-107, before the clamp
RawScore(mt, treynor) ==
    FMul(FAdd(FAdd(FAdd(FAdd(FAdd(FAdd(FAdd(
        FMul(Weight("volatility"), FSub(One, FDiv(mt.volatility, Hundred))),
        FMul(Weight("sharpe_ratio"), mt.sharpe_ratio)),
        FMul(Weight("max_drawdown"), FSub(One, mt.max_drawdown))),
        FMul(Weight("treynor_ratio"), NpMean(treynor))),
        FMul(Weight("calmar_ratio"), mt.calmar_ratio)),
        FMul(Weight("var"), FSub(One, FDiv(mt.var, Hundred)))),
        FMul(Weight("downside_deviation"),
             FSub(One, FDiv(mt.downside_deviation, Hundred)))),
        FMul(Weight("trend"), FSub(One, FDiv(FAbs(mt.trend), Hundred)))),
      Hundred)

\* Python's builtin min(a, b) and max(a, b): the first argument is kept
\* unless the second compares strictly smaller (larger)
PyMin(a, b) == IF FLt(b, a) THEN b ELSE a
PyMax(a, b) == IF FGt(b, a) THEN b ELSE a

\* mutant of Clamp: the floor of 1 is missing
ClampWithoutFloor(raw) == PyMin(Hundred, raw)

\* mutant of Clamp: min is called with the score first
ClampScoreFirst(raw) == PyMax(One, PyMin(raw, Hundred))

\* line 108
Clamp(raw) == PyMax(One, PyMin(Hundred, raw))

----------------------------------------------------------------------------
(* Inputs                                                                  *)

\* longest price series of the model
MaxLen == 4

Prices == {1, 2}

SeriesOver(P, lo, hi) == UNION {[1..n -> P] : n \in lo..hi}

\* what the data source may hold for the ticker
StockInputs == SeriesOver(Prices, 3, MaxLen)

\* what the data source may return for a market index over a window in
\* which the ticker has n observations: a moving market, a flat market,
\* and a market with one observation fewer than the ticker
MarketInputs(n) ==
    {[i \in 1..n |-> IF i % 2 = 1 THEN 1 ELSE 2],
     [i \in 1..n |-> 1],
     [i \in 1..(n - 1) |-> IF i % 2 = 1 THEN 1 ELSE 2]}

market_indices == <<"^GSPC", "^DJI", "^IXIC">>

\* the price series of the end-to-end scenario of the specification
Scenario == <<100, 102, 101, 105, 103>>

DrawdownInputs == SeriesOver({1, 2, 3}, 2, MaxLen) \cup {Scenario}

----------------------------------------------------------------------------
(* State                                                                   *)

VARIABLES
    pc,              \* position in generate_risk_assessment
    feed,            \* the prices the data source now returns for the ticker
    restated,        \* the data source has changed its data during the run
    fetched,         \* the ticker price series the run's downloads returned
    metrics,         \* the local variables of generate_risk_assessment
    treynor_ratios,  \* the list built by the comprehension of line 83
    held,            \* the value a metric function holds across a nested call
    ab,              \* arguments and result of the last calculate_alpha_and_beta
    raw_score,       \* risk_score before line 108
    risk_score,      \* the value returned
    raised,          \* the exception that ended the run, or "none"
    call             \* a call of calculate_max_drawdown, line by line

vars == <<pc, feed, restated, fetched, metrics, treynor_ratios, held, ab,
          raw_score, risk_score, raised, call>>

\* a local variable that is not assigned yet
Unset == [k |-> "unset", s |-> 0, m |-> 0, e |-> 0]

NoAlphaBeta == [stock |-> <<>>, market |-> <<>>, alpha |-> Unset, beta |-> Unset]

NoCall == [pc |-> "idle", stock_data |-> <<>>, cumulative_returns |-> <<>>,
           peak |-> <<>>, drawdown |-> <<>>, max_drawdown |-> Unset]

NoMetrics ==
    [volatility |-> Unset, sharpe_ratio |-> Unset, max_drawdown |-> Unset,
     calmar_ratio |-> Unset, var |-> Unset, downside_deviation |-> Unset,
     trend |-> Unset]

Init ==
    /\ pc = "volatility"
    /\ feed \in StockInputs
    /\ restated = FALSE
    /\ fetched = {}
    /\ metrics = NoMetrics
    /\ treynor_ratios = <<>>
    /\ held = Unset
    /\ ab = NoAlphaBeta
    /\ raw_score = Unset
    /\ risk_score = Unset
    /\ raised = "none"
    /\ call = NoCall

----------------------------------------------------------------------------
(* generate_risk_assessment, one action per yf.download of the ticker      *)

\* yf.download(ticker, ...) returns what the data source holds now
Download == fetched' = fetched \cup {feed}

\* line 80
VolatilityStep ==
    /\ pc = "volatility"
    /\ Download
    /\ metrics' = [metrics EXCEPT !.volatility = calculate_volatility(feed)]
    /\ pc' = "sharpe"
    /\ UNCHANGED <<feed, restated, treynor_ratios, held, ab, raw_score, risk_score, raised, call>>

\* line 81
SharpeStep ==
    /\ pc = "sharpe"
    /\ Download
    /\ metrics' = [metrics EXCEPT !.sharpe_ratio = calculate_sharpe_ratio(feed, risk_free_rate)]
    /\ pc' = "max_drawdown"
    /\ UNCHANGED <<feed, restated, treynor_ratios, held, ab, raw_score, risk_score, raised, call>>

\* line 82
MaxDrawdownStep ==
    /\ pc = "max_drawdown"
    /\ Download
    /\ metrics' = [metrics EXCEPT !.max_drawdown = calculate_max_drawdown(feed)]
    /\ pc' = "treynor"
    /\ UNCHANGED <<feed, restated, treynor_ratios, held, ab, raw_score, risk_score, raised, call>>

\* line 83, calculate_treynor_ratio up to its call of calculate_alpha_and_beta
TreynorStep ==
    /\ pc = "treynor"
    /\ Download
    /\ held' = TreynorExcessMean(feed, risk_free_rate)
    /\ pc' = "alpha_beta"
    /\ UNCHANGED <<feed, restated, metrics, treynor_ratios, ab, raw_score, risk_score, raised, call>>

\* calculate_alpha_and_beta called by calculate_treynor_ratio, and the
\* division of line 47.  np.cov raises ValueError for arrays of two lengths.
AlphaBetaStep ==
    /\ pc = "alpha_beta"
    /\ Download
    /\ \E market_data \in MarketInputs(Len(feed)) :
         IF Len(market_data) # Len(feed)
         THEN /\ raised' = "ValueError"
              /\ pc' = "done"
              /\ UNCHANGED <<treynor_ratios, ab>>
         ELSE LET r == calculate_alpha_and_beta(feed, market_data, risk_free_rate)
              IN /\ ab' = [stock |-> feed, market |-> market_data,
                           alpha |-> r[1], beta |-> r[2]]
                 /\ treynor_ratios' = Append(treynor_ratios, FDiv(held, r[2]))
                 /\ pc' = IF Len(treynor_ratios) + 1 = Len(market_indices)
                          THEN "calmar" ELSE "treynor"
                 /\ UNCHANGED raised
    /\ UNCHANGED <<feed, restated, metrics, held, raw_score, risk_score, call>>

\* line 84, calculate_calmar_ratio up to its call of calculate_max_drawdown
CalmarStep ==
    /\ pc = "calmar"
    /\ Download
    /\ held' = AnnualizedReturn(feed)
    /\ pc' = "calmar_drawdown"
    /\ UNCHANGED <<feed, restated, metrics, treynor_ratios, ab, raw_score, risk_score, raised, call>>

\* lines 59-61
CalmarDrawdownStep ==
    /\ pc = "calmar_drawdown"
    /\ Download
    /\ metrics' = [metrics EXCEPT
                     !.calmar_ratio = CalmarRatio(held, calculate_max_drawdown(feed))]
    /\ pc' = "var"
    /\ UNCHANGED <<feed, restated, treynor_ratios, held, ab, raw_score, risk_score, raised, call>>

\* line 85
VarStep ==
    /\ pc = "var"
    /\ Download
    /\ metrics' = [metrics EXCEPT !.var = calculate_var(Returns(feed), Dec(5, 100))]
    /\ pc' = "downside"
    /\ UNCHANGED <<feed, restated, treynor_ratios, held, ab, raw_score, risk_score, raised, call>>

\* line 86
DownsideStep ==
    /\ pc = "downside"
    /\ Download
    /\ metrics' = [metrics EXCEPT
                     !.downside_deviation = calculate_downside_deviation(Returns(feed), Zero)]
    /\ pc' = "trend"
    /\ UNCHANGED <<feed, restated, treynor_ratios, held, ab, raw_score, risk_score, raised, call>>

\* line 87
TrendStep ==
    /\ pc = "trend"
    /\ Download
    /\ metrics' = [metrics EXCEPT !.trend = calculate_trend(Returns(feed))]
    /\ pc' = "aggregate"
    /\ UNCHANGED <<feed, restated, treynor_ratios, held, ab, raw_score, risk_score, raised, call>>

\* lines 88-119
AggregateStep ==
    /\ pc = "aggregate"
    /\ raw_score' = RawScore(metrics, treynor_ratios)
    /\ risk_score' = Clamp(RawScore(metrics, treynor_ratios))
    /\ pc' = "done"
    /\ UNCHANGED <<feed, restated, fetched, metrics, treynor_ratios, held, ab, raised, call>>

\* The data source restates the ticker's adjusted close between two
\* downloads of one run (at most once a run): the last price changes.
Restate ==
    /\ pc \notin {"aggregate", "done", "idle"}
    /\ fetched # {}
    /\ ~restated
    /\ \E price \in Prices \ {feed[Len(feed)]} :
         feed' = [feed EXCEPT ![Len(feed)] = price]
    /\ restated' = TRUE
    /\ UNCHANGED <<pc, fetched, metrics, treynor_ratios, held, ab, raw_score, risk_score, raised, call>>

Next ==
    \/ VolatilityStep
    \/ SharpeStep
    \/ MaxDrawdownStep
    \/ TreynorStep
    \/ AlphaBetaStep
    \/ CalmarStep
    \/ CalmarDrawdownStep
    \/ VarStep
    \/ DownsideStep
    \/ TrendStep
    \/ AggregateStep
    \/ Restate

Spec == Init /\ [][Next]_vars

----------------------------------------------------------------------------
(* calculate_max_drawdown on its own, one action per line                  *)

DrawdownInit ==
    /\ call \in {[NoCall EXCEPT !.pc = "line35", !.stock_data = d] : d \in DrawdownInputs}
    /\ pc = "idle"
    /\ feed = <<>>
    /\ restated = FALSE
    /\ fetched = {}
    /\ metrics = NoMetrics
    /\ treynor_ratios = <<>>
    /\ held = Unset
    /\ ab = NoAlphaBeta
    /\ raw_score = Unset
    /\ risk_score = Unset
    /\ raised = "none"

Idle == UNCHANGED <<pc, feed, restated, fetched, metrics, treynor_ratios, held, ab,
                    raw_score, risk_score, raised>>

Line35 ==
    /\ call.pc = "line35"
    /\ call' = [call EXCEPT !.pc = "line36",
                            !.cumulative_returns = CumulativeReturns(call.stock_data)]
    /\ Idle

Line36 ==
    /\ call.pc = "line36"
    /\ call' = [call EXCEPT !.pc = "line37",
                            !.peak = ExpandingMax(call.cumulative_returns)]
    /\ Idle

Line37 ==
    /\ call.pc = "line37"
    /\ call' = [call EXCEPT !.pc = "line38",
                            !.drawdown = Drawdown(call.cumulative_returns, call.peak)]
    /\ Idle

Line38 ==
    /\ call.pc = "line38"
    /\ call' = [call EXCEPT !.pc = "returned",
                            !.max_drawdown = SeriesMin(call.drawdown)]
    /\ Idle

DrawdownNext == Line35 \/ Line36 \/ Line37 \/ Line38

DrawdownSpec == DrawdownInit /\ [][DrawdownNext]_vars

----------------------------------------------------------------------------
(* Properties                                                              *)

\* generate_risk_assessment has returned a score
Returned == pc = "done" /\ raised = "none"

\* |x - target| <= tol
Approx(x, target, tol) == FLe(FAbs(FSub(x, target)), tol)

\* C1: the score returned lies in [1,100]; it is 1 when the raw weighted
\* sum is below 1, 100 when the raw sum is above 100, and the raw sum
\* itself when that lies in [1,100].
ScoreIsClampedRaw ==
    Returned =>
        /\ FGe(risk_score, One) /\ FLe(risk_score, Hundred)
        /\ FLt(raw_score, One) => risk_score = One
        /\ FGt(raw_score, Hundred) => risk_score = Hundred
        /\ (FGe(raw_score, One) /\ FLe(raw_score, Hundred)) => risk_score = raw_score

\* a run whose finite raw sum is below 1 has returned 1
RawBelowOneReturned ==
    Returned /\ IsFinite(raw_score) /\ FLt(raw_score, One) /\ risk_score = One

\* C2 as stated: a score is never returned from an assessment in which a
\* metric was undefined (its formula divided by zero or had no sample, so
\* that its value is NaN or infinite).
NoScoreFromUndefinedMetric ==
    Returned =>
        /\ \A name \in DOMAIN metrics : IsFinite(metrics[name])
        /\ \A i \in 1..Len(treynor_ratios) : IsFinite(treynor_ratios[i])

\* the raw score as the claim C3 writes it
ClaimedRaw(volatility, sharpe, max_drawdown, treynor, calmar, var, downside, trend) ==
    FMul(Hundred,
      FAdd(FAdd(FAdd(FAdd(FAdd(FAdd(FAdd(
        FMul(Dec(35, 100), FSub(One, FDiv(volatility, Hundred))),
        FMul(Dec(1, 10), sharpe)),
        FMul(Dec(1, 10), FSub(One, max_drawdown))),
        FMul(Dec(1, 10), FDiv(SeqSum(treynor), FromInt(Len(treynor))))),
        FMul(Dec(1, 10), calmar)),
        FMul(Dec(5, 100), FSub(One, FDiv(var, Hundred)))),
        FMul(Dec(5, 100), FSub(One, FDiv(downside, Hundred)))),
        FMul(Dec(15, 100), FSub(One, FDiv(FAbs(trend), Hundred)))))

\* the weights of the table in hundredths, summed
RECURSIVE SumHundredths(_)
SumHundredths(names) ==
    IF names = {} THEN 0
    ELSE LET n == CHOOSE x \in names : TRUE
         IN (weights[n][1] * 100) \div weights[n][2] + SumHundredths(names \ {n})

\* C3: before the clamp the score is 100 * (0.35*(1 - volatility/100) +
\* 0.1*sharpe + 0.1*(1 - max_drawdown) + 0.1*mean(treynor) + 0.1*calmar +
\* 0.05*(1 - var/100) + 0.05*(1 - downside/100) + 0.15*(1 - |trend|/100)),
\* and the weights of the table sum to 1.
RawScoreIsWeightedSum ==
    /\ SumHundredths(DOMAIN weights) = 100
    /\ Returned =>
         raw_score = ClaimedRaw(metrics.volatility, metrics.sharpe_ratio,
                                metrics.max_drawdown, treynor_ratios,
                                metrics.calmar_ratio, metrics.var,
                                metrics.downside_deviation, metrics.trend)

\* a run whose raw sum is a number inside [1,100] has returned
RawInsideRangeReturned ==
    Returned /\ IsFinite(raw_score) /\ FGe(raw_score, One) /\ FLe(raw_score, Hundred)

\* the cumulative-return curve C_t = (1 + r_1) * ... * (1 + r_t)
RECURSIVE CurveAt(_, _)
CurveAt(r, t) ==
    IF t = 1 THEN FAdd(One, r[1]) ELSE FMul(CurveAt(r, t - 1), FAdd(One, r[t]))

NonDecreasingCurve(stock_data) ==
    LET r == Returns(stock_data)
    IN \A t \in 1..(Len(r) - 1) : FLe(CurveAt(r, t), CurveAt(r, t + 1))

ScenarioReturns ==
    <<FSub(FDiv(FromInt(102), FromInt(100)), One),
      FSub(FDiv(FromInt(101), FromInt(102)), One),
      FSub(FDiv(FromInt(105), FromInt(101)), One),
      FSub(FDiv(FromInt(103), FromInt(105)), One)>>

\* C5 as stated: for [100, 102, 101, 105, 103] the returns are
\* [102/100 - 1, 101/102 - 1, 105/101 - 1, 103/105 - 1] and the maximum
\* drawdown is about -0.0098 = 101/102 - 1, at the decline from the peak 102.
ScenarioDrawdownAtFirstDecline ==
    call.stock_data = Scenario =>
        /\ Returns(call.stock_data) = ScenarioReturns
        /\ call.pc = "returned" =>
             /\ Approx(call.max_drawdown, ScenarioReturns[2], Dec(5, 10000))
             /\ call.max_drawdown = call.drawdown[3]

\* C5 amended: for [100, 102, 101, 105, 103] the returns are as listed and
\* the maximum drawdown is about -0.0190 = 103/105 - 1, reached at the last
\* observation, the decline from the running peak of 105.
ScenarioDrawdownAtLastDecline ==
    call.stock_data = Scenario =>
        /\ Returns(call.stock_data) = ScenarioReturns
        /\ call.pc = "returned" =>
             /\ Approx(call.max_drawdown, ScenarioReturns[4], Dec(5, 10000))
             /\ call.max_drawdown = call.drawdown[5]
             /\ call.peak[5] = call.cumulative_returns[4]

\* the call over the scenario has returned
ScenarioReturned == call.stock_data = Scenario /\ call.pc = "returned"

IsConstant(series) == \A i \in 1..Len(series) : series[i] = series[1]

\* C6 as stated: over a constant price series calculate_volatility returns
\* 0 and calculate_sharpe_ratio ends in DegenerateVarianceError, with no
\* value from a division by a zero standard deviation.
ConstantSeriesSharpeRaises ==
    (metrics.volatility # Unset /\ \A d \in fetched : IsConstant(d)) =>
        /\ metrics.volatility = Zero
        /\ pc # "sharpe" =>
             /\ raised = "DegenerateVarianceError"
             /\ metrics.sharpe_ratio = Unset

\* C7 as stated: all the metrics of one run are computed from one price
\* series of the ticker, whatever the data source does between downloads.
OneDatasetPerRun == Cardinality(fetched) <= 1

\* C8 as stated: over two observations (one return r) the maximum drawdown
\* is 0 when r >= 0 and r when r < 0.
SingleReturnDrawdown ==
    (call.pc = "returned" /\ Len(call.stock_data) = 2) =>
        LET r == Returns(call.stock_data)[1]
        IN /\ FGe(r, Zero) => call.max_drawdown = Zero
           /\ FLt(r, Zero) => call.max_drawdown = r

AnyMetricNaN ==
    \/ \E name \in DOMAIN metrics : IsNaN(metrics[name])
    \/ \E i \in 1..Len(treynor_ratios) : IsNaN(treynor_ratios[i])

\* C9: when one of the metric values entering the weighted sum is NaN the
\* raw sum is NaN, and when the raw sum is NaN the score returned is 100.
NaNScoresHundred ==
    Returned =>
        /\ AnyMetricNaN => IsNaN(raw_score)
        /\ IsNaN(raw_score) => risk_score = Hundred

\* a run with no negative return (the downside sample is empty, its
\* standard deviation NaN) has returned 100
NaNDownsideReturnedHundred ==
    Returned /\ IsNaN(metrics.downside_deviation) /\ risk_score = Hundred

\* C10 as stated: for an asset whose returns are the market's (two or more
\* of them, of non-zero variance) calculate_alpha_and_beta gives beta = 1
\* and alpha = 0.
SelfBetaIsOne ==
    (/\ ab.beta # Unset
     /\ ab.stock = ab.market
     /\ Var(ExcessReturns(ab.market, risk_free_rate), 0) # Zero) =>
        /\ Approx(ab.beta, One, Dec(1, 1000))
        /\ Approx(ab.alpha, Zero, Dec(1, 1000))

====
